---- MODULE Spec2Model ----
(***************************************************************************)
(* Timetable scheduler: the global scheduling coordinator                  *)
(* (backend/global_scheduler.py), the generation driver                    *)
(* (backend/scheduler.py) and the routes that call them                    *)
(* (backend/routes/dept.py, backend/routes/global_admin.py).               *)
(*                                                                         *)
(* Times are minutes since midnight.  Storage is the committed content of  *)
(* the scheduled_slots and dept_timetables tables; every handler runs in   *)
(* its own database session.                                               *)
(***************************************************************************)
EXTENDS Integers, Sequences, FiniteSets, TLC

VARIABLES
    scheduled_slots,       \* table scheduled_slots: a set of rows
    dept_timetables,       \* table dept_timetables: id -> row
    next_slot_id,          \* the serial behind ScheduledSlot.id
    global_slots,          \* GlobalScheduler.global_slots: cell -> department
    department_timetables, \* GlobalScheduler.department_timetables: department -> list of timetable ids
    shared_resources,      \* GlobalScheduler.shared_resources: classroom id -> info
    clock,                 \* datetime.utcnow(), as a logical clock
    runs,                  \* the generate_timetable calls in flight: run -> frame
    ret                    \* what the last handler returned

vars == <<scheduled_slots, dept_timetables, next_slot_id, global_slots,
          department_timetables, shared_resources, clock, runs, ret>>

coordinator == <<global_slots, department_timetables, shared_resources>>
storage == <<scheduled_slots, dept_timetables, next_slot_id>>

----------------------------------------------------------------------------
(* Bounds of the model *)

\* how many timetable rows the registry may list before load is no longer taken
MaxRegistry == 6
\* the slots (of day 0) an initial timetable may use on the shared classroom
MaxInitSlot == 2
\* how many generate_timetable calls a behaviour starts
MaxRuns == 2
\* how many timetables timetables.step7 may create
MaxCreated == 1

----------------------------------------------------------------------------
(* The time grid *)

start_hour == 8
end_hour == 18
slot_duration == 55
num_days == 5
num_slots_per_day == ((end_hour - start_hour) * 60) \div slot_duration
MinutesPerDay == 24 * 60

\* GlobalScheduler._time_to_slot
time_to_slot(time_obj) ==
    (time_obj - start_hour * 60) \div slot_duration

\* GlobalScheduler._slot_to_time, TimetableScheduler._slot_to_time
slot_to_time(slot) ==
    (start_hour * 60 + slot * slot_duration) % MinutesPerDay

\* TimetableScheduler._add_minutes_to_time
add_minutes_to_time(start_time, minutes) ==
    (start_time + minutes) % MinutesPerDay

----------------------------------------------------------------------------
(* The departments' data: teachers, courses, classrooms, assignments *)

\* None where a department is expected; an absent row or matrix is the empty list
None == "None"
Nothing == <<>>
NoTimetable == 0

Departments == {"Computer Science", "Art", "Bio"}

FullDay == [s \in 1..num_slots_per_day |-> TRUE]
FullWeek == [d \in 1..num_days |-> FullDay]
\* available Monday slots 1 and 2, Wednesday slot 0, Thursday slot 0
ArtWeek ==
    [d \in 1..num_days |->
        [s \in 1..num_slots_per_day |->
            \/ (d = 1 /\ s \in {2, 3})
            \/ (d \in {3, 4} /\ s = 1)]]

\* table teachers: availability is a matrix (a list of rows); a teacher without
\* one has the empty list, which the code treats as it treats None
Teacher ==
    [t \in {1, 2, 3, 4} |->
        CASE t = 1 -> [department |-> "Computer Science", availability |-> FullWeek,
                       days_off |-> {}, max_hours_per_day |-> 8]
          [] t = 2 -> [department |-> "Art", availability |-> ArtWeek,
                       days_off |-> {2}, max_hours_per_day |-> 8]
          [] t = 3 -> [department |-> "Bio", availability |-> Nothing,
                       days_off |-> {}, max_hours_per_day |-> 8]
          [] t = 4 -> [department |-> "Mathematics", availability |-> Nothing,
                       days_off |-> {}, max_hours_per_day |-> 8]]

\* table courses
Course ==
    [c \in {1, 2, 3} |->
        CASE c = 1 -> [department |-> "Computer Science", duration_minutes |-> 55,
                       sessions_per_week |-> 1, room_type |-> "lecture"]
          [] c = 2 -> [department |-> "Art", duration_minutes |-> 90,
                       sessions_per_week |-> 1, room_type |-> "lecture"]
          [] c = 3 -> [department |-> "Bio", duration_minutes |-> 55,
                       sessions_per_week |-> 1, room_type |-> "lecture"]]

\* table assignments
Assignment ==
    [a \in {1, 2, 3} |->
        [department |-> Course[a].department, course_id |-> a, teacher_id |-> a,
         group_id |-> None]]

\* table classrooms: classroom 1 is the shared room, classroom 2 is Art's own
Classroom ==
    [r \in {1, 2} |->
        [department |-> IF r = 1 THEN "Shared" ELSE "Art",
         room_type |-> "lecture", capacity |-> 30]]

AssignmentOf(department) ==
    CHOOSE a \in DOMAIN Assignment : Assignment[a].department = department

\* availability[day][time_slot] of the Python lists (0-based)
AvailableAt(availability, day, time_slot) ==
    /\ day < Len(availability)
    /\ time_slot < Len(availability[day + 1])
    /\ availability[day + 1][time_slot + 1]

----------------------------------------------------------------------------
(* Rows and cells *)

\* models.ScheduledSlot
ScheduledSlot(id, timetable_id, assignment_id, classroom_id, day, start_time, end_time, department, is_global) ==
    [id |-> id, dept_timetable_id |-> timetable_id, assignment_id |-> assignment_id,
     classroom_id |-> classroom_id, day_of_week |-> day, start_time |-> start_time,
     end_time |-> end_time, department |-> department, is_global_slot |-> is_global]

\* key = (slot.classroom_id, slot.day_of_week, self._time_to_slot(slot.start_time))
KeyOf(slot) ==
    <<slot.classroom_id, slot.day_of_week, time_to_slot(slot.start_time)>>

\* a dict as a function on its key set
DictSet(dict, keys, value) ==
    [k \in DOMAIN dict \cup keys |-> IF k \in keys THEN value ELSE dict[k]]
DictDel(dict, keys) ==
    [k \in DOMAIN dict \ keys |-> dict[k]]
EmptyDict == [k \in {} |-> None]

\* the elements of a set of integers in ascending order
RECURSIVE SortedSeq(_)
SortedSeq(S) ==
    IF S = {} THEN <<>>
    ELSE LET m == CHOOSE x \in S : \A y \in S : x <= y
         IN <<m>> \o SortedSeq(S \ {m})

Range(seq) == {seq[i] : i \in 1..Len(seq)}

\* what a handler returned
Ret(op, department, timetable_id, success, conflicts, departments, count) ==
    [op |-> op, department |-> department, timetable_id |-> timetable_id,
     success |-> success, conflicts |-> conflicts, departments |-> departments,
     count |-> count, errors |-> <<>>]

----------------------------------------------------------------------------
(* GlobalScheduler: load_global_state *)

GlobalRows(slots) == {s \in slots : s.is_global_slot}
GlobalKeys(slots) == {KeyOf(s) : s \in GlobalRows(slots)}

\* The rows come back in no stated order: where global rows of several
\* departments share a key, the row read last decides the entry.  A last-writer
\* names that row's department for every such key.
DepartmentsAt(slots, k) == {s.department : s \in {x \in GlobalRows(slots) : KeyOf(x) = k}}

LastWriters(slots) ==
    LET open == {k \in GlobalKeys(slots) : Cardinality(DepartmentsAt(slots, k)) > 1}
    IN {last \in [open -> Departments] : \A k \in open : last[k] \in DepartmentsAt(slots, k)}

\* lines 31-37: self.global_slots[key] = slot.department, on top of what is there
load_global_slots(G, slots, last) ==
    [k \in DOMAIN G \cup GlobalKeys(slots) |->
        IF k \in DOMAIN last THEN last[k]
        ELSE IF k \in GlobalKeys(slots)
            THEN CHOOSE d \in DepartmentsAt(slots, k) : TRUE
            ELSE G[k]]

CompletedIds(timetables) ==
    {t \in DOMAIN timetables : timetables[t].status = "completed"}

\* lines 40-47: every completed timetable is appended to its department's list
load_department_timetables(registry, timetables) ==
    LET completed == CompletedIds(timetables)
        depts == {timetables[t].department : t \in completed}
    IN [d \in DOMAIN registry \cup depts |->
           (IF d \in DOMAIN registry THEN registry[d] ELSE <<>>)
           \o SortedSeq({t \in completed : timetables[t].department = d})]

\* lines 50-60: one entry per classroom of department 'Shared'
load_shared_resources(shared) ==
    LET ids == {r \in DOMAIN Classroom : Classroom[r].department = "Shared"}
    IN [r \in DOMAIN shared \cup ids |->
           IF r \in ids
           THEN [room_type |-> Classroom[r].room_type,
                 capacity |-> Classroom[r].capacity, departments |-> <<>>]
           ELSE shared[r]]

RECURSIVE SumLen(_, _)
SumLen(registry, keys) ==
    IF keys = {} THEN 0
    ELSE LET k == CHOOSE x \in keys : TRUE
         IN Len(registry[k]) + SumLen(registry, keys \ {k})

RegistrySize(registry) == SumLen(registry, DOMAIN registry)

\* a load is taken only while the registry stays within the model's bound
MayLoad ==
    RegistrySize(department_timetables) + Cardinality(CompletedIds(dept_timetables))
        <= MaxRegistry

\* admin scheduler.initialize -> initialize_global_scheduler -> load_global_state
LoadGlobalState ==
    /\ MayLoad
    /\ \E last \in LastWriters(scheduled_slots) :
          global_slots' = load_global_slots(global_slots, scheduled_slots, last)
    /\ department_timetables' = load_department_timetables(department_timetables, dept_timetables)
    /\ shared_resources' = load_shared_resources(shared_resources)
    /\ ret' = Ret("load", None, NoTimetable, TRUE, {}, {}, 0)
    /\ UNCHANGED <<storage, clock, runs>>

----------------------------------------------------------------------------
(* GlobalScheduler: check_resource_conflicts *)

Conflict(slot, department, occupying_dept) ==
    [slot_id |-> slot.id, classroom_id |-> slot.classroom_id,
     day_of_week |-> slot.day_of_week, start_time |-> slot.start_time,
     requesting_department |-> department, occupying_department |-> occupying_dept]

\* check_resource_conflicts without the test occupying_dept != department
check_resource_conflicts_any(G, slots, department, timetable_id) ==
    LET rows == {s \in slots : s.dept_timetable_id = timetable_id}
        conflicts ==
            {Conflict(s, department, G[KeyOf(s)]) :
                s \in {x \in rows : KeyOf(x) \in DOMAIN G}}
    IN <<Cardinality(conflicts) = 0, conflicts>>

\* lines 73-107; the result is the pair (len(conflicts) == 0, conflicts)
check_resource_conflicts(G, slots, department, timetable_id) ==
    LET rows == {s \in slots : s.dept_timetable_id = timetable_id}
        conflicts ==
            {Conflict(s, department, G[KeyOf(s)]) :
                s \in {x \in rows : /\ KeyOf(x) \in DOMAIN G
                                    /\ G[KeyOf(x)] # department}}
    IN <<Cardinality(conflicts) = 0, conflicts>>

TimetableIds == DOMAIN dept_timetables

\* check_department_conflicts(department, timetable_id)
CheckResourceConflicts(department, timetable_id) ==
    /\ LET result == check_resource_conflicts(global_slots, scheduled_slots, department, timetable_id)
       IN ret' = Ret("check", department, timetable_id, result[1], result[2], {}, 0)
    /\ UNCHANGED <<storage, coordinator, clock, runs>>

----------------------------------------------------------------------------
(* GlobalScheduler: reserve_global_slots, release_global_slots *)

\* lines 119-126: UPDATE ... SET is_global_slot = true
reserve_update(slots, timetable_id, slot_ids) ==
    {IF s.dept_timetable_id = timetable_id /\ s.id \in slot_ids
        THEN [s EXCEPT !.is_global_slot = TRUE] ELSE s : s \in slots}

\* lines 129-139
reserve_index(G, slots, department, timetable_id, slot_ids) ==
    LET reserved_slots ==
            {s \in reserve_update(slots, timetable_id, slot_ids) :
                /\ s.dept_timetable_id = timetable_id
                /\ s.id \in slot_ids
                /\ s.is_global_slot}
    IN DictSet(G, {KeyOf(s) : s \in reserved_slots}, department)

ReserveGlobalSlots(department, timetable_id, slot_ids, fault) ==
    /\ scheduled_slots' =
          IF fault = "none" THEN reserve_update(scheduled_slots, timetable_id, slot_ids)
          ELSE scheduled_slots
    /\ global_slots' =
          IF fault = "statement" THEN global_slots
          ELSE reserve_index(global_slots, scheduled_slots, department, timetable_id, slot_ids)
    /\ ret' = Ret("reserve", None, NoTimetable, fault = "none", {}, {}, 0)
    /\ UNCHANGED <<dept_timetables, next_slot_id, department_timetables,
                   shared_resources, clock, runs>>

\* lines 167-174: UPDATE ... SET is_global_slot = false
release_update(slots, timetable_id) ==
    {IF s.dept_timetable_id = timetable_id /\ s.is_global_slot
        THEN [s EXCEPT !.is_global_slot = FALSE] ELSE s : s \in slots}

\* release_index without the test self.global_slots[key] == department
release_index_any(G, slots, department, timetable_id) ==
    LET slots_to_release ==
            {s \in slots : s.dept_timetable_id = timetable_id /\ s.is_global_slot}
    IN DictDel(G, {k \in {KeyOf(s) : s \in slots_to_release} : k \in DOMAIN G})

\* lines 159-164 and 177-180
release_index(G, slots, department, timetable_id) ==
    LET slots_to_release ==
            {s \in slots : s.dept_timetable_id = timetable_id /\ s.is_global_slot}
    IN DictDel(G, {k \in {KeyOf(s) : s \in slots_to_release} :
                      k \in DOMAIN G /\ G[k] = department})

ReleaseGlobalSlots(department, timetable_id, fault) ==
    /\ scheduled_slots' =
          IF fault = "none" THEN release_update(scheduled_slots, timetable_id)
          ELSE scheduled_slots
    /\ global_slots' =
          IF fault = "statement" THEN global_slots
          ELSE release_index(global_slots, scheduled_slots, department, timetable_id)
    /\ ret' = Ret("release", None, NoTimetable, fault = "none", {}, {}, 0)
    /\ UNCHANGED <<dept_timetables, next_slot_id, department_timetables,
                   shared_resources, clock, runs>>

----------------------------------------------------------------------------
(* GlobalScheduler: validate_global_consistency *)

\* lines 458-496; the result is the pair (len(errors) == 0, errors)
validate_global_consistency(G, slots) ==
    LET global_slots_in_db == GlobalRows(slots)
        db_slot_keys == {KeyOf(s) : s \in global_slots_in_db}
        memory_slot_keys == DOMAIN G
        orphaned_in_memory == memory_slot_keys \ db_slot_keys
        orphaned_in_db == db_slot_keys \ memory_slot_keys
        slot_count == [k \in db_slot_keys |->
                          Cardinality({s \in global_slots_in_db : KeyOf(s) = k})]
        double_booked == {k \in db_slot_keys : slot_count[k] > 1}
        errors ==
            (IF orphaned_in_memory # {}
                THEN <<[error |-> "orphaned slots in memory", count |-> Cardinality(orphaned_in_memory)]>>
                ELSE <<>>)
            \o (IF orphaned_in_db # {}
                THEN <<[error |-> "orphaned slots in database", count |-> Cardinality(orphaned_in_db)]>>
                ELSE <<>>)
            \o (IF double_booked # {}
                THEN <<[error |-> "double-booked slots", count |-> Cardinality(double_booked)]>>
                ELSE <<>>)
    IN <<Len(errors) = 0, errors>>

----------------------------------------------------------------------------
(* GlobalScheduler: synchronize_department_timetables and its helpers *)

\* lines 238-243: the completed timetable of the department updated last, if any
latest_completed(timetables, department) ==
    LET completed == {t \in CompletedIds(timetables) : timetables[t].department = department}
    IN IF completed = {} THEN NoTimetable
       ELSE CHOOSE t \in completed :
                \A u \in completed : timetables[u].updated_at <= timetables[t].updated_at

\* the keys of the dict department_slots, in insertion order
RECURSIVE department_order(_, _)
department_order(timetables, departments) ==
    IF departments = <<>> THEN <<>>
    ELSE LET rest == department_order(timetables, Tail(departments))
             d == Head(departments)
         IN IF latest_completed(timetables, d) = NoTimetable THEN rest
            ELSE <<d>> \o SelectSeq(rest, LAMBDA x : x # d)

\* lines 234-249: department -> the rows of its latest completed timetable
department_slots(slots, timetables, departments) ==
    [d \in Range(department_order(timetables, departments)) |->
        {s \in slots : s.dept_timetable_id = latest_completed(timetables, d)}]

KeyRank(k) == (k[1] * num_days + k[2]) * 1000 + k[3]

RECURSIVE Repeat(_, _)
Repeat(x, n) == IF n = 0 THEN <<>> ELSE <<x>> \o Repeat(x, n - 1)

RECURSIVE Flatten(_)
Flatten(seqs) == IF seqs = <<>> THEN <<>> ELSE Head(seqs) \o Flatten(Tail(seqs))

\* lines 279-308: one conflict per key that more than one usage entry names.
\* conflicting_departments lists the department of every entry, department by
\* department in dict order; the conflicts are listed by key.
detect_inter_department_conflicts(dslots, order) ==
    LET rows == UNION {dslots[d] : d \in DOMAIN dslots}
        contested == {k \in {KeyOf(s) : s \in rows} :
                         Cardinality({s \in rows : KeyOf(s) = k}) > 1}
        ranks == SortedSeq({KeyRank(k) : k \in contested})
    IN [i \in 1..Len(ranks) |->
           LET key == CHOOSE k \in contested : KeyRank(k) = ranks[i]
           IN [key |-> key,
               conflicting_departments |->
                   Flatten([j \in 1..Len(order) |->
                       Repeat(order[j],
                              Cardinality({s \in dslots[order[j]] : KeyOf(s) = key}))]),
               conflicting_slots |-> {s \in rows : KeyOf(s) = key}]]

\* lines 317-322 and dept_priority.get(d, 999)
dept_priority(d) ==
    CASE d = "Computer Science" -> 1
      [] d = "Engineering" -> 2
      [] d = "Mathematics" -> 3
      [] d = "Physics" -> 4
      [] OTHER -> 999

\* sorted(depts, key=...): a stable sort
RECURSIVE sorted_by_priority(_)
sorted_by_priority(depts) ==
    IF depts = <<>> THEN <<>>
    ELSE LET init == sorted_by_priority(SubSeq(depts, 1, Len(depts) - 1))
             x == depts[Len(depts)]
         IN SelectSeq(init, LAMBDA y : dept_priority(y) <= dept_priority(x))
            \o <<x>>
            \o SelectSeq(init, LAMBDA y : dept_priority(y) > dept_priority(x))

\* lines 360-401: <<the row that replaces the slot>> (its id not yet given), or
\* the empty list for None
attempt_reschedule(slot, G) ==
    LET teacher == Teacher[Assignment[slot.assignment_id].teacher_id]
        availability == teacher.availability
        free == {c \in (0..(num_days - 1)) \X (0..(num_slots_per_day + 1)) :
                    /\ c[1] \notin teacher.days_off
                    /\ AvailableAt(availability, c[1], c[2])
                    /\ <<slot.classroom_id, c[1], c[2]>> \notin DOMAIN G}
        first == CHOOSE c \in free :
                    \A e \in free : c[1] < e[1] \/ (c[1] = e[1] /\ c[2] <= e[2])
    IN IF slot.assignment_id \notin DOMAIN Assignment THEN Nothing
       ELSE IF availability = Nothing THEN Nothing
       ELSE IF free = {} THEN Nothing
       ELSE <<ScheduledSlot(0, slot.dept_timetable_id, slot.assignment_id, slot.classroom_id,
                            first[1], slot_to_time(first[2]), slot_to_time(first[2] + 1),
                            slot.department, slot.is_global_slot)>>

\* The rows of a conflict come back in no stated order: `firsts` holds, for
\* every conflict and every department with rows in it, the row that
\* next(slot for slot in conflict['conflicting_slots'] if slot.department == dept)
\* finds.
FirstRows(conflicts) ==
    LET rows == UNION {conflicts[i].conflicting_slots : i \in 1..Len(conflicts)}
        same(s) == {x \in rows : KeyOf(x) = KeyOf(s) /\ x.department = s.department}
        alone == {s \in rows : same(s) = {s}}
    IN {alone \cup more : more \in
           {m \in SUBSET (rows \ alone) :
               \A s \in rows \ alone : Cardinality(m \cap same(s)) = 1}}

\* lines 324-354: the loser entries of all conflicts, in the order they are handled;
\* each names the row found for the department and its replacement (if any)
resolve_conflicts_by_priority(conflicts, G, firsts) ==
    Flatten([i \in 1..Len(conflicts) |->
        LET sorted_depts == sorted_by_priority(conflicts[i].conflicting_departments)
            losers == Tail(sorted_depts)
            found(dept) == {s \in firsts \cap conflicts[i].conflicting_slots : s.department = dept}
        IN Flatten([j \in 1..Len(losers) |->
               IF found(losers[j]) = {} THEN <<>>
               ELSE LET dept_slot == CHOOSE s \in found(losers[j]) : TRUE
                    IN <<[department |-> losers[j], original_slot |-> dept_slot,
                          new_slot |-> attempt_reschedule(dept_slot, G)]>>])])

\* the session's pending changes, as db.commit() writes them: every handled row
\* is deleted, every replacement inserted with the next id
sync_commit(slots, next_id, handled) ==
    LET moved == SelectSeq(handled, LAMBDA h : h.new_slot # Nothing)
        deleted == {handled[i].original_slot : i \in 1..Len(handled)}
        added == {[moved[i].new_slot[1] EXCEPT !.id = next_id + i - 1] : i \in 1..Len(moved)}
    IN [slots |-> (slots \ deleted) \cup added, next_id |-> next_id + Len(moved),
        conflicts_resolved |-> Len(moved)]

\* permutations and sub-lists of the departments, as the request lists them
DepartmentLists ==
    {seq \in UNION {[1..n -> Departments] : n \in 2..Cardinality(Departments)} :
        \A i, j \in 1..Len(seq) : i # j => seq[i] # seq[j]}

\* admin departments.synchronize -> synchronize_department_timetables(departments).
\* The store may raise before the resolution is done (nothing but the report
\* changes) or in db.commit() (the session is rolled back).  load_global_state
\* (line 261) runs in a session of its own before db.commit() (line 263): it reads
\* the rows as they were before this call.
SynchronizeDepartmentTimetables(departments) ==
    /\ MayLoad
    /\ \/ /\ ret' = Ret("synchronize", None, NoTimetable, FALSE, {}, {}, 0)
          /\ UNCHANGED <<scheduled_slots, next_slot_id, coordinator>>
       \/ /\ LET dslots == department_slots(scheduled_slots, dept_timetables, departments)
                 order == department_order(dept_timetables, departments)
                 conflicts == detect_inter_department_conflicts(dslots, order)
             IN \E firsts \in FirstRows(conflicts) :
                  LET handled == resolve_conflicts_by_priority(conflicts, global_slots, firsts)
                      done == sync_commit(scheduled_slots, next_slot_id, handled)
                  IN \E committed \in BOOLEAN :
                       /\ scheduled_slots' = IF committed THEN done.slots ELSE scheduled_slots
                       /\ next_slot_id' = IF committed THEN done.next_id ELSE next_slot_id
                       /\ ret' = Ret("synchronize", None, NoTimetable, committed, {},
                                     Range(departments), done.conflicts_resolved)
          /\ \E last \in LastWriters(scheduled_slots) :
                global_slots' = load_global_slots(global_slots, scheduled_slots, last)
          /\ department_timetables' =
                load_department_timetables(department_timetables, dept_timetables)
          /\ shared_resources' = load_shared_resources(shared_resources)
    /\ UNCHANGED <<dept_timetables, clock, runs>>

----------------------------------------------------------------------------
(* The coordinator over a store that holds three completed timetables *)

\* models.DeptTimetable
DeptTimetable(department, status, updated_at) ==
    [department |-> department, status |-> status, updated_at |-> updated_at,
     generation_log |-> None, solver_stats |-> None]

InitTimetables ==
    [t \in {1, 2, 3} |->
        CASE t = 1 -> DeptTimetable("Computer Science", "completed", 1)
          [] t = 2 -> DeptTimetable("Art", "completed", 2)
          [] t = 3 -> DeptTimetable("Bio", "completed", 3)]

\* the cells of the shared classroom a generated slot of the assignment may use:
\* the solver leaves out the cells its teacher's matrix excludes
InitCells(a) ==
    LET teacher == Teacher[Assignment[a].teacher_id]
    IN {c \in {1} \X {0} \X (1..(IF a = 1 THEN 1 ELSE MaxInitSlot)) :
           \/ teacher.availability = Nothing
           \/ /\ c[2] \notin teacher.days_off
              /\ AvailableAt(teacher.availability, c[2], c[3])}

\* the row save_solution writes for the assignment at the cell
GeneratedSlot(id, timetable_id, a, cell, department) ==
    ScheduledSlot(id, timetable_id, a, cell[1], cell[2], slot_to_time(cell[3]),
                  add_minutes_to_time(slot_to_time(cell[3]),
                                      Course[Assignment[a].course_id].duration_minutes),
                  department, FALSE)

InitStore ==
    /\ dept_timetables = InitTimetables
    /\ \E cells \in [DOMAIN InitTimetables -> {1} \X {0} \X (1..MaxInitSlot)] :
          /\ \A t \in DOMAIN InitTimetables :
                cells[t] \in InitCells(AssignmentOf(InitTimetables[t].department))
          /\ scheduled_slots =
                {GeneratedSlot(t, t, AssignmentOf(InitTimetables[t].department), cells[t],
                               InitTimetables[t].department) : t \in DOMAIN InitTimetables}
    /\ next_slot_id = 4
    /\ clock = 4
    /\ runs = <<>>

\* app.py never loads the coordinator: it starts empty
Init ==
    /\ InitStore
    /\ global_slots = EmptyDict
    /\ department_timetables = EmptyDict
    /\ shared_resources = EmptyDict
    /\ ret = Ret("init", None, NoTimetable, TRUE, {}, {}, 0)

SlotIds == {s.id : s \in scheduled_slots}

\* the slot_ids of a reserve request for a timetable: one id of a row of the
\* timetable, or the ids of all stored rows
SlotIdLists(timetable_id) ==
    {{s.id} : s \in {x \in scheduled_slots : x.dept_timetable_id = timetable_id}}
        \cup {SlotIds}

\* every caller passes a timetable of the department it names
Check ==
    \E department \in Departments, timetable_id \in TimetableIds :
        /\ dept_timetables[timetable_id].department = department
        /\ CheckResourceConflicts(department, timetable_id)

Reserve ==
    \E department \in Departments, timetable_id \in TimetableIds :
        \E slot_ids \in SlotIdLists(timetable_id), fault \in {"none", "commit"} :
            ReserveGlobalSlots(department, timetable_id, slot_ids, fault)

Release ==
    \E department \in Departments, timetable_id \in TimetableIds,
       fault \in {"none", "commit"} :
        ReleaseGlobalSlots(department, timetable_id, fault)

Synchronize ==
    \E departments \in DepartmentLists :
        SynchronizeDepartmentTimetables(departments)

Next ==
    \/ LoadGlobalState
    \/ Check
    \/ Reserve
    \/ Release
    \/ Synchronize

Spec == Init /\ [][Next]_vars

----------------------------------------------------------------------------
(* scheduler.py: validate_scheduling_data, the solver's result, generate_timetable *)

\* a validation that stops at the first empty category
validate_scheduling_data_first_error(department) ==
    LET count(table) == Cardinality({x \in DOMAIN table : table[x].department = department})
        errors ==
            IF count(Assignment) = 0 THEN <<"No assignments found for scheduling">>
            ELSE IF count(Teacher) = 0 THEN <<"No teachers found for scheduling">>
            ELSE IF count(Classroom) = 0 THEN <<"No classrooms found for scheduling">>
            ELSE IF count(Course) = 0 THEN <<"No courses found for scheduling">>
            ELSE <<>>
    IN <<Len(errors) = 0, errors>>

\* lines 632-672: one error per empty category; the result is the pair
\* (len(errors) == 0, errors)
validate_scheduling_data(department) ==
    LET count(table) == Cardinality({x \in DOMAIN table : table[x].department = department})
        errors ==
            (IF count(Assignment) = 0 THEN <<"No assignments found for scheduling">> ELSE <<>>)
            \o (IF count(Teacher) = 0 THEN <<"No teachers found for scheduling">> ELSE <<>>)
            \o (IF count(Classroom) = 0 THEN <<"No classrooms found for scheduling">> ELSE <<>>)
            \o (IF count(Course) = 0 THEN <<"No courses found for scheduling">> ELSE <<>>)
    IN <<Len(errors) = 0, errors>>

\* what load_data keeps of the four tables for one department, and the part of
\* the grid the model explores for it
Snapshot(assignments, teachers, courses, classrooms, days, slots) ==
    [assignments |-> assignments, teachers |-> teachers, courses |-> courses,
     classrooms |-> classrooms, days |-> days, slots |-> slots]

\* lines 52-110, for the departments' data above: Monday, slots 1..MaxInitSlot
load_data(department) ==
    LET of(table) == [x \in {y \in DOMAIN table : table[y].department = department}
                         |-> table[x]]
    IN Snapshot(of(Assignment), of(Teacher), of(Course), of(Classroom),
                {0}, 1..MaxInitSlot)

RoomTypes == {"lecture", "lab", "computer_lab", "conference"}

\* a compatibility that also lets the classroom type upgrade the course
is_room_compatible_symmetric(course_room_type, classroom_room_type) ==
    \/ course_room_type = classroom_room_type
    \/ {course_room_type, classroom_room_type} = {"lecture", "conference"}
    \/ {course_room_type, classroom_room_type} = {"lab", "computer_lab"}

\* TimetableScheduler._is_room_compatible
is_room_compatible(course_room_type, classroom_room_type) ==
    \/ course_room_type = classroom_room_type
    \/ course_room_type = "lecture" /\ classroom_room_type = "conference"
    \/ course_room_type = "lab" /\ classroom_room_type = "computer_lab"

CourseOf(data, a) == data.courses[data.assignments[a].course_id]

\* create_decision_variables: the keys (assignment, classroom, day, slot) of
\* schedule_vars
ScheduleKeys(data) ==
    {k \in (DOMAIN data.assignments) \X (DOMAIN data.classrooms) \X data.days \X data.slots :
        is_room_compatible(CourseOf(data, k[1]).room_type, data.classrooms[k[2]].room_type)}

\* constraint 1, lines 178-189: only for an assignment that has variables
sessions_constraint(data, chosen) ==
    \A a \in DOMAIN data.assignments :
        (\E k \in ScheduleKeys(data) : k[1] = a) =>
            Cardinality({k \in chosen : k[1] = a}) = CourseOf(data, a).sessions_per_week

\* a solver without the teacher constraint
teacher_constraint_dropped(data, chosen) == TRUE

\* constraint 2, lines 191-204: for each teacher of self.teachers and each cell
teacher_constraint(data, chosen) ==
    \A k1, k2 \in chosen :
        /\ data.assignments[k1[1]].teacher_id = data.assignments[k2[1]].teacher_id
        /\ data.assignments[k1[1]].teacher_id \in DOMAIN data.teachers
        /\ k1[3] = k2[3]
        /\ k1[4] = k2[4]
        => k1 = k2

\* a solver without the classroom constraint
room_constraint_dropped(data, chosen) == TRUE

\* constraint 3, lines 206-217: for each classroom and each cell
room_constraint(data, chosen) ==
    \A k1, k2 \in chosen :
        k1[2] = k2[2] /\ k1[3] = k2[3] /\ k1[4] = k2[4] => k1 = k2

\* constraint 4, lines 219-244: only for a teacher that has a matrix
availability_constraint(data, chosen) ==
    \A k \in chosen :
        LET t == data.assignments[k[1]].teacher_id
        IN t \in DOMAIN data.teachers /\ data.teachers[t].availability # Nothing =>
              LET availability == data.teachers[t].availability
              IN IF k[3] \in data.teachers[t].days_off THEN FALSE
                 ELSE ~ (/\ k[3] < Len(availability)
                         /\ k[4] < Len(availability[k[3] + 1])
                         /\ ~ availability[k[3] + 1][k[4] + 1])

\* constraint 5, lines 246-262
max_hours_constraint(data, chosen) ==
    \A t \in DOMAIN data.teachers, day \in data.days :
        Cardinality({k \in chosen : data.assignments[k[1]].teacher_id = t /\ k[3] = day})
            <= (data.teachers[t].max_hours_per_day * 60) \div slot_duration

\* constraint 6, lines 264-287: in each cell all the variables of the members
\* of a group, whatever the classroom, get the same value
group_constraint(data, chosen) ==
    LET group_ids == {data.assignments[a].group_id : a \in DOMAIN data.assignments} \ {None}
        members(g) == {a \in DOMAIN data.assignments : data.assignments[a].group_id = g}
    IN \A g \in group_ids :
          Cardinality(members(g)) > 1 =>
              \A day \in data.days, slot \in data.slots :
                  LET group_vars == {k \in ScheduleKeys(data) :
                                        k[1] \in members(g) /\ k[3] = day /\ k[4] = slot}
                  IN Cardinality(group_vars) > 1 =>
                        \/ group_vars \subseteq chosen
                        \/ group_vars \cap chosen = {}

\* add_hard_constraints, on the set of keys whose variable is 1
HardConstraints(data, chosen) ==
    /\ sessions_constraint(data, chosen)
    /\ teacher_constraint(data, chosen)
    /\ room_constraint(data, chosen)
    /\ availability_constraint(data, chosen)
    /\ max_hours_constraint(data, chosen)
    /\ group_constraint(data, chosen)

gap_penalty == 10
time_preference_penalty == 5

\* add_soft_constraints, lines 299-331: a Boolean gap_var is created for each
\* (teacher, day, slot) whose three lists of variables (at slot, slot + 2 and
\* slot + 1) are all non-empty; no constraint ties it to those variables
gap_vars(data) ==
    LET has(t, day, slot) ==
            \E k \in ScheduleKeys(data) :
                data.assignments[k[1]].teacher_id = t /\ k[3] = day /\ k[4] = slot
    IN {g \in (DOMAIN data.teachers) \X data.days \X (0..(num_slots_per_day - 3)) :
           has(g[1], g[2], g[3]) /\ has(g[1], g[2], g[3] + 2) /\ has(g[1], g[2], g[3] + 1)}

\* lines 296-352, with no rules: the objective for the schedule variables that
\* are 1 (chosen) and the gap variables that are 1 (gaps)
objective(data, chosen, gaps) ==
    gap_penalty * Cardinality(gaps)
        + time_preference_penalty
            * Cardinality({k \in chosen : k[4] \in {0, num_slots_per_day - 1}})

\* Minimize: the least objective over the values of the gap variables
ObjectiveValue(data, chosen) ==
    LET values == {objective(data, chosen, gaps) : gaps \in SUBSET gap_vars(data)}
    IN CHOOSE v \in values : \A w \in values : v <= w

\* the subsets of S that have at most n elements
RECURSIVE SubsetsUpTo(_, _)
SubsetsUpTo(S, n) ==
    IF n = 0 THEN {{}}
    ELSE LET smaller == SubsetsUpTo(S, n - 1)
         IN smaller \cup {T \cup {x} : T \in smaller, x \in S}

\* the sets of keys that give each assignment at most sessions_per_week
\* placements: constraint 1 allows no others
RECURSIVE Placements(_, _)
Placements(data, assignments) ==
    IF assignments = {} THEN {{}}
    ELSE LET a == CHOOSE x \in assignments : TRUE
             own == SubsetsUpTo({k \in ScheduleKeys(data) : k[1] = a},
                                CourseOf(data, a).sessions_per_week)
             rest == Placements(data, assignments \ {a})
         IN {p \cup q : p \in own, q \in rest}

\* the sessions a week up to which every placement of the data is enumerated
EnumeratedSessions == 8

RECURSIVE SessionsNeeded(_, _)
SessionsNeeded(data, assignments) ==
    IF assignments = {} THEN 0
    ELSE LET a == CHOOSE x \in assignments : TRUE
         IN CourseOf(data, a).sessions_per_week + SessionsNeeded(data, assignments \ {a})

Enumerated(data) == SessionsNeeded(data, DOMAIN data.assignments) <= EnumeratedSessions

\* one placement for data too large to enumerate: each assignment takes, in its
\* first compatible classroom, the first cells slot by slot across the days
PackedPlacement(data) ==
    LET own(a) == {k \in ScheduleKeys(data) : k[1] = a}
        room(a) == CHOOSE c \in {k[2] : k \in own(a)} : \A k \in own(a) : c <= k[2]
        inroom(a) == {k \in own(a) : k[2] = room(a)}
        rank(k) == k[4] * num_days + k[3]
        packed(a) ==
            IF own(a) = {} THEN {}
            ELSE {k \in inroom(a) :
                     Cardinality({j \in inroom(a) : rank(j) < rank(k)})
                         < CourseOf(data, a).sessions_per_week}
    IN UNION {packed(a) : a \in DOMAIN data.assignments}

\* the assignments of values the model considers
Candidates(data) ==
    IF Enumerated(data) THEN Placements(data, DOMAIN data.assignments)
    ELSE {PackedPlacement(data)}

\* the assignments of values the solver may report as OPTIMAL or FEASIBLE
Solutions(data) ==
    {chosen \in Candidates(data) : HardConstraints(data, chosen)}

\* solve, lines 431-450: the status names of a run that finds no solution;
\* INFEASIBLE when every placement was tried and none satisfies the constraints
NoSolutionStatus(data) ==
    {"UNKNOWN"}
        \cup (IF Enumerated(data) /\ Solutions(data) = {} THEN {"INFEASIBLE"} ELSE {})

\* lines 461-486: the rows of a solution, without ids
extract_solution(data, chosen) ==
    {[assignment_id |-> k[1], classroom_id |-> k[2], day_of_week |-> k[3],
      start_time |-> slot_to_time(k[4]),
      end_time |-> add_minutes_to_time(slot_to_time(k[4]),
                      CourseOf(data, k[1]).duration_minutes)] : k \in chosen}

\* a call of generate_timetable: where it stands, the data of its
\* TimetableScheduler, the solver's status and chosen keys, and what it returns
Frame(timetable_id, department, caller, pc, data) ==
    [timetable_id |-> timetable_id, department |-> department, caller |-> caller,
     pc |-> pc, data |-> data, status |-> None, chosen |-> {},
     success |-> FALSE, stats |-> None]

SetStatus(timetables, timetable_id, status, now) ==
    IF timetable_id \in DOMAIN timetables
    THEN [timetables EXCEPT ![timetable_id].status = status,
                            ![timetable_id].updated_at = now]
    ELSE timetables

\* lines 534-538: status, solver_stats and updated_at
SetCompleted(timetables, timetable_id, now) ==
    IF timetable_id \in DOMAIN timetables
    THEN [timetables EXCEPT ![timetable_id].status = "completed",
                            ![timetable_id].solver_stats = "solver_stats",
                            ![timetable_id].updated_at = now]
    ELSE timetables

\* line 602
SetSolverStats(timetables, timetable_id) ==
    IF timetable_id \in DOMAIN timetables
    THEN [timetables EXCEPT ![timetable_id].solver_stats = "solver_stats"]
    ELSE timetables

\* lines 598-603 and 617-621: status, generation_log and updated_at
SetFailed(timetables, timetable_id, generation_log, now) ==
    IF timetable_id \in DOMAIN timetables
    THEN [timetables EXCEPT ![timetable_id].status = "failed",
                            ![timetable_id].generation_log = generation_log,
                            ![timetable_id].updated_at = now]
    ELSE timetables

\* dept timetables.step7, lines 842-872: the validation gate, the new draft row,
\* and the call of generate_timetable
Step7Create(department) ==
    /\ Len(runs) < MaxRuns
    /\ Cardinality(DOMAIN dept_timetables) <= MaxCreated
    /\ IF validate_scheduling_data(department)[1]
       THEN LET id == Cardinality(DOMAIN dept_timetables) + 1
            IN /\ dept_timetables' =
                     [t \in DOMAIN dept_timetables \cup {id} |->
                         IF t = id THEN DeptTimetable(department, "draft", clock)
                         ELSE dept_timetables[t]]
               /\ runs' = Append(runs, Frame(id, department, "step7", "start", load_data(department)))
               /\ clock' = clock + 1
               /\ ret' = ret
       ELSE /\ ret' = [Ret("step7", department, NoTimetable, FALSE, {}, {},
                              Len(validate_scheduling_data(department)[2]))
                             EXCEPT !.errors = validate_scheduling_data(department)[2]]
            /\ UNCHANGED <<dept_timetables, runs, clock>>
    /\ UNCHANGED <<scheduled_slots, next_slot_id, coordinator>>

\* a call of generate_timetable for a timetable that exists (a regeneration)
Regenerate(timetable_id) ==
    /\ Len(runs) < MaxRuns
    /\ LET department == dept_timetables[timetable_id].department
       IN runs' = Append(runs, Frame(timetable_id, department, "direct", "start",
                                     load_data(department)))
    /\ UNCHANGED <<storage, coordinator, clock, ret>>

\* lines 557-565: status = 'generating', committed
GenerateStart(r) ==
    /\ runs[r].pc = "start"
    /\ \E fault \in BOOLEAN :
          IF fault
          THEN /\ runs' = [runs EXCEPT ![r].pc = "except"]
               /\ UNCHANGED <<dept_timetables, clock>>
          ELSE /\ dept_timetables' =
                     SetStatus(dept_timetables, runs[r].timetable_id, "generating", clock)
               /\ clock' = clock + 1
               /\ runs' = [runs EXCEPT ![r].pc = "solve"]
    /\ UNCHANGED <<scheduled_slots, next_slot_id, coordinator, ret>>

\* lines 568-581: load, build, solve; the solver finds a solution, finds none
\* (INFEASIBLE, or UNKNOWN at the time limit), or something raises
GenerateSolve(r) ==
    /\ runs[r].pc = "solve"
    /\ \/ \E chosen \in Solutions(runs[r].data) :
             runs' = [runs EXCEPT ![r].pc = "save", ![r].status = "OPTIMAL",
                                  ![r].chosen = chosen]
       \/ \E status \in NoSolutionStatus(runs[r].data) :
             runs' = [runs EXCEPT ![r].pc = "failed", ![r].status = status]
       \/ runs' = [runs EXCEPT ![r].pc = "except"]
    /\ UNCHANGED <<storage, coordinator, clock, ret>>

\* the statements of save_solution at which the store (or json.dumps) may raise
SaveFaults == {"none", "delete", "insert", "status", "commit"}

\* what the transaction has done when it reaches the statement `upto`
save_progress(slots, timetables, next_id, timetable_id, department, rows, now, upto) ==
    LET order == SortedSeq({KeyRank(<<x.classroom_id, x.day_of_week, time_to_slot(x.start_time)>>)
                               : x \in rows})
        idOf(x) == next_id - 1 + CHOOSE i \in 1..Len(order) :
                       order[i] = KeyRank(<<x.classroom_id, x.day_of_week, time_to_slot(x.start_time)>>)
        deleted == {s \in slots : s.dept_timetable_id # timetable_id}
        inserted == deleted
                    \cup {ScheduledSlot(idOf(x), timetable_id, x.assignment_id, x.classroom_id,
                                        x.day_of_week, x.start_time, x.end_time,
                                        department, FALSE) : x \in rows}
    IN CASE upto = "delete" -> [slots |-> slots, timetables |-> timetables, next_id |-> next_id]
         [] upto = "insert" -> [slots |-> deleted, timetables |-> timetables, next_id |-> next_id]
         [] upto = "status" -> [slots |-> inserted, timetables |-> timetables,
                                next_id |-> next_id + Cardinality(rows)]
         [] OTHER -> [slots |-> inserted,
                      timetables |-> SetCompleted(timetables, timetable_id, now),
                      next_id |-> next_id + Cardinality(rows)]

\* a save that keeps what was done before the statement that raised
save_solution_without_rollback(slots, timetables, next_id, timetable_id, department, rows, now, fault) ==
    save_progress(slots, timetables, next_id, timetable_id, department, rows, now, fault)
        @@ [ok |-> fault = "none"]

\* lines 512-549: the rows of the timetable are replaced and its status set, in
\* one transaction; when a statement raises, rollback restores the store
save_solution(slots, timetables, next_id, timetable_id, department, rows, now, fault) ==
    IF fault = "none"
    THEN save_progress(slots, timetables, next_id, timetable_id, department, rows, now, "none")
            @@ [ok |-> TRUE]
    ELSE [slots |-> slots, timetables |-> timetables, next_id |-> next_id, ok |-> FALSE]

\* lines 585-593: extract and save; generate_timetable returns save_solution's
\* result with the solver's stats
GenerateSave(r) ==
    /\ runs[r].pc = "save"
    /\ \E fault \in SaveFaults :
          LET saved == save_solution(scheduled_slots, dept_timetables, next_slot_id,
                                     runs[r].timetable_id, runs[r].department,
                                     extract_solution(runs[r].data, runs[r].chosen),
                                     clock, fault)
          IN /\ scheduled_slots' = saved.slots
             /\ dept_timetables' = saved.timetables
             /\ next_slot_id' = saved.next_id
             /\ clock' = IF saved.ok THEN clock + 1 ELSE clock
             /\ runs' = [runs EXCEPT ![r].pc = "done", ![r].success = saved.ok,
                                     ![r].stats = "solver_stats"]
    /\ UNCHANGED <<coordinator, ret>>

\* line 601: the log of a run whose solver found no solution
SolverFailedLog(status) ==
    CASE status = "INFEASIBLE" -> "Solver failed: INFEASIBLE"
      [] status = "UNKNOWN" -> "Solver failed: UNKNOWN"
      [] OTHER -> "Solver failed: Unknown error"

\* lines 595-609: no solution: status = 'failed' and the log; the statements sit
\* inside the outer try, so a raise there continues in the except branch
GenerateFailed(r) ==
    /\ runs[r].pc = "failed"
    /\ \E fault \in BOOLEAN :
          IF fault
          THEN /\ runs' = [runs EXCEPT ![r].pc = "except"]
               /\ UNCHANGED <<dept_timetables, clock>>
          ELSE /\ dept_timetables' =
                     SetSolverStats(SetFailed(dept_timetables, runs[r].timetable_id,
                                              SolverFailedLog(runs[r].status), clock),
                                    runs[r].timetable_id)
               /\ clock' = clock + 1
               /\ runs' = [runs EXCEPT ![r].pc = "done", ![r].success = FALSE,
                                       ![r].stats = "solver_stats"]
    /\ UNCHANGED <<scheduled_slots, next_slot_id, coordinator, ret>>

\* lines 611-626: the except branch: status = 'failed', the log of the error,
\* and {} for the stats; if the store raises again the exception leaves
\* generate_timetable
GenerateExcept(r) ==
    /\ runs[r].pc = "except"
    /\ \E fault \in BOOLEAN :
          IF fault
          THEN /\ runs' = [runs EXCEPT ![r].pc = "raised"]
               /\ UNCHANGED <<dept_timetables, clock>>
          ELSE /\ dept_timetables' =
                     SetFailed(dept_timetables, runs[r].timetable_id,
                               "Generation error", clock)
               /\ clock' = clock + 1
               /\ runs' = [runs EXCEPT ![r].pc = "done", ![r].success = FALSE,
                                       ![r].stats = "{}"]
    /\ UNCHANGED <<scheduled_slots, next_slot_id, coordinator, ret>>

\* dept.py, lines 874-892: the response of step 7 once generate_timetable is back
Step7Respond(r) ==
    /\ runs[r].caller = "step7"
    /\ runs[r].pc \in {"done", "raised"}
    /\ runs' = [runs EXCEPT ![r].pc = "returned"]
    /\ LET department == runs[r].department
           timetable_id == runs[r].timetable_id
           check == check_resource_conflicts(global_slots, scheduled_slots,
                                             department, timetable_id)
           has_conflicts == check[1]
           conflicts == check[2]
       IN ret' = IF runs[r].pc = "raised"
                 THEN Ret("step7", department, NoTimetable, FALSE, {}, {}, 0)
                 ELSE Ret("step7", department, timetable_id, runs[r].success,
                          IF runs[r].success /\ has_conflicts THEN conflicts ELSE {},
                          {}, 0)
    /\ UNCHANGED <<storage, coordinator, clock>>

\* global_admin.py, lines 221-246: the conflicts of the latest completed
\* timetable of each department
detect_conflicts(G, slots, timetables, departments) ==
    UNION {LET latest_timetable == latest_completed(timetables, department)
               check == check_resource_conflicts(G, slots, department, latest_timetable)
               has_conflicts == check[1]
               conflicts == check[2]
           IN IF latest_timetable # NoTimetable /\ has_conflicts THEN conflicts ELSE {}
           : department \in departments}

DetectConflicts(departments) ==
    /\ LET all_conflicts == detect_conflicts(global_slots, scheduled_slots,
                                             dept_timetables, departments)
       IN ret' = Ret("detect", None, NoTimetable, TRUE, all_conflicts, departments,
                     Cardinality(all_conflicts))
    /\ UNCHANGED <<storage, coordinator, clock, runs>>

----------------------------------------------------------------------------
(* Generation over a store that holds one completed timetable of Art *)

InitGen ==
    /\ \E chosen \in Solutions(load_data("Art")) :
          LET saved == save_solution({}, [t \in {1} |-> DeptTimetable("Art", "draft", 1)],
                                     1, 1, "Art",
                                     extract_solution(load_data("Art"), chosen), 1, "none")
          IN /\ scheduled_slots = saved.slots
             /\ dept_timetables = saved.timetables
             /\ next_slot_id = saved.next_id
    /\ global_slots = EmptyDict
    /\ department_timetables = EmptyDict
    /\ shared_resources = EmptyDict
    /\ clock = 2
    /\ runs = <<>>
    /\ ret = Ret("init", None, NoTimetable, TRUE, {}, {}, 0)

\* the departments whose head may call step 7: those of the coordinator's
\* store, one that has a teacher and nothing else, and one that has nothing
Step7Departments == Departments \cup {"Mathematics", "Physics"}

Step7 == \E department \in Step7Departments : Step7Create(department)

Call == \E timetable_id \in TimetableIds : Regenerate(timetable_id)

Generate ==
    \E r \in DOMAIN runs :
        \/ GenerateStart(r)
        \/ GenerateSolve(r)
        \/ GenerateSave(r)
        \/ GenerateFailed(r)
        \/ GenerateExcept(r)

Respond == \E r \in DOMAIN runs : Step7Respond(r)

\* the departments of a detect request: one department, or all of them (the default)
DetectRequests == {{d} : d \in Departments} \cup {Departments}

Detect == \E departments \in DetectRequests : DetectConflicts(departments)

ReserveCommitted ==
    \E department \in Departments, timetable_id \in TimetableIds :
        \E slot_ids \in SlotIdLists(timetable_id) :
            ReserveGlobalSlots(department, timetable_id, slot_ids, "none")

NextGen == Step7 \/ Call \/ Generate \/ Respond \/ Detect \/ ReserveCommitted

SpecGen == InitGen /\ [][NextGen]_vars

\* the calls of generate_timetable alone, on the timetable that exists
NextRegen == Call \/ Generate

SpecRegen == InitGen /\ [][NextRegen]_vars

\* the wizard's last step alone
NextStep7 == Step7 \/ Generate \/ Respond

SpecStep7 == InitGen /\ [][NextStep7]_vars

----------------------------------------------------------------------------
(* Reserve and release alone, with no store fault, from a loaded coordinator *)

InitRR ==
    /\ InitStore
    /\ global_slots = EmptyDict
    /\ department_timetables = load_department_timetables(EmptyDict, dept_timetables)
    /\ shared_resources = load_shared_resources(EmptyDict)
    /\ ret = Ret("load", None, NoTimetable, TRUE, {}, {}, 0)

ReleaseCommitted ==
    \E department \in Departments, timetable_id \in TimetableIds :
        ReleaseGlobalSlots(department, timetable_id, "none")

NextRR == ReserveCommitted \/ ReleaseCommitted

SpecRR == InitRR /\ [][NextRR]_vars

----------------------------------------------------------------------------
(* reserve_global_slots and release_global_slots step by step, with a reader *)

\* a call that has written G and stands before db.commit(); rows holds the
\* call's reserved_slots or slots_to_release, before the G it found
Transaction(caller, department, timetable_id, slot_ids, rows, G) ==
    [caller |-> caller, department |-> department, timetable_id |-> timetable_id,
     slot_ids |-> slot_ids, rows |-> rows, before |-> G, pc |-> "commit"]

InFlight == runs # <<>> /\ runs[1].pc = "commit"

\* reserve_global_slots, lines 116-141: the UPDATE stays pending in the call's
\* session, the entries of G are written
ReserveWrite(department, timetable_id, slot_ids) ==
    /\ ~ InFlight
    /\ global_slots' =
          reserve_index(global_slots, scheduled_slots, department, timetable_id, slot_ids)
    /\ runs' = <<Transaction("reserve", department, timetable_id, slot_ids,
                             {s \in reserve_update(scheduled_slots, timetable_id, slot_ids) :
                                 /\ s.dept_timetable_id = timetable_id
                                 /\ s.id \in slot_ids
                                 /\ s.is_global_slot},
                             global_slots)>>
    /\ UNCHANGED <<storage, department_timetables, shared_resources, clock, ret>>

\* release_global_slots, lines 156-180
ReleaseWrite(department, timetable_id) ==
    /\ ~ InFlight
    /\ global_slots' = release_index(global_slots, scheduled_slots, department, timetable_id)
    /\ runs' = <<Transaction("release", department, timetable_id, {},
                             {s \in scheduled_slots :
                                 s.dept_timetable_id = timetable_id /\ s.is_global_slot},
                             global_slots)>>
    /\ UNCHANGED <<storage, department_timetables, shared_resources, clock, ret>>

\* lines 143-145 and 182-184: db.commit() writes the pending UPDATE
CommitTransaction ==
    /\ InFlight
    /\ LET tx == runs[1]
       IN /\ scheduled_slots' =
                IF tx.caller = "reserve"
                THEN reserve_update(scheduled_slots, tx.timetable_id, tx.slot_ids)
                ELSE release_update(scheduled_slots, tx.timetable_id)
          /\ runs' = <<[tx EXCEPT !.pc = "done"]>>
          /\ ret' = Ret(tx.caller, None, NoTimetable, TRUE, {}, {}, 0)
    /\ UNCHANGED <<dept_timetables, next_slot_id, coordinator, clock>>

\* lines 147-150 and 186-189: db.commit() raises, the session is rolled back
RollbackTransaction ==
    /\ InFlight
    /\ runs' = <<[runs[1] EXCEPT !.pc = "failed"]>>
    /\ ret' = Ret(runs[1].caller, None, NoTimetable, FALSE, {}, {}, 0)
    /\ UNCHANGED <<storage, coordinator, clock>>

TxnReserve ==
    \E department \in Departments, timetable_id \in TimetableIds :
        \E slot_ids \in SlotIdLists(timetable_id) :
            ReserveWrite(department, timetable_id, slot_ids)

TxnRelease ==
    \E department \in Departments, timetable_id \in TimetableIds :
        ReleaseWrite(department, timetable_id)

\* requests are served by threads of one process that share the coordinator:
\* a check may run while a reserve or release stands before its commit
NextTxn ==
    \/ TxnReserve
    \/ TxnRelease
    \/ CommitTransaction
    \/ RollbackTransaction
    \/ Check

SpecTxn == InitRR /\ [][NextTxn]_vars

----------------------------------------------------------------------------
(* One call of generate_timetable over the data a department may hold *)

\* the days and slots of the grid the solver is given here
GridDays == {0, 1}
GridSlots == 2

\* the sessions_per_week of the courses
MaxSessions == 2

\* a weekly matrix that is false exactly at the cells given
Availability(unavailable) ==
    [d \in 1..num_days |->
        [s \in 1..num_slots_per_day |-> <<d - 1, s - 1>> \notin unavailable]]

\* two assignments, two teachers, two courses and two classrooms of one
\* department: the rows dept.py lets a department create
SolveData(teacher_of_2, availability, days_off, room_types, sessions, group_ids, classroom_types) ==
    Snapshot(
        [a \in {1, 2} |->
            [department |-> "Computer Science", course_id |-> a,
             teacher_id |-> IF a = 1 THEN 1 ELSE teacher_of_2,
             group_id |-> group_ids[a]]],
        [t \in {1, 2} |->
            [department |-> "Computer Science",
             availability |-> IF t = 1 THEN availability ELSE Nothing,
             days_off |-> IF t = 1 THEN days_off ELSE {},
             max_hours_per_day |-> 8]],
        [c \in {1, 2} |->
            [department |-> "Computer Science", duration_minutes |-> 55,
             sessions_per_week |-> IF c = 1 THEN sessions ELSE 1,
             room_type |-> room_types[c]]],
        [r \in {1, 2} |->
            [department |-> "Computer Science", room_type |-> classroom_types[r],
             capacity |-> 30]],
        GridDays, 0..(GridSlots - 1))

\* every course type against every classroom type, beside a lecture room
RoomSnapshots ==
    {SolveData(2, Nothing, {}, <<ct, "lecture">>, sessions, <<None, None>>, <<rt, "lecture">>) :
        ct \in RoomTypes, rt \in RoomTypes, sessions \in 1..MaxSessions}

\* one teacher or two, with or without a matrix, with or without a day off
TeacherSnapshots ==
    {SolveData(teacher_of_2, availability, days_off, <<"lecture", "lecture">>, sessions,
               <<None, None>>, <<rt, "lecture">>) :
        teacher_of_2 \in {1, 2},
        availability \in {Nothing, Availability({}), Availability({<<1, 0>>})},
        days_off \in {{}, {0}},
        sessions \in 1..MaxSessions,
        rt \in {"lecture", "lab"}}

\* the course types and the classroom types of two assignments of one group:
\* one classroom each, a classroom shared, two classrooms each, one for both
GroupCases ==
    {<<<<"lab", "conference">>, <<"lab", "conference">>>>,
     <<<<"lecture", "conference">>, <<"lecture", "conference">>>>,
     <<<<"lecture", "lecture">>, <<"lecture", "lecture">>>>,
     <<<<"lab", "lab">>, <<"lab", "lecture">>>>}

GroupSnapshots ==
    {SolveData(2, Nothing, {}, case[1], 1, <<"g", "g">>, case[2]) : case \in GroupCases}

\* the slots 1..GapSlots of one day, for one teacher with two assignments
GapSlots == 3

GapSnapshots ==
    {[SolveData(1, Nothing, {}, <<"lecture", "lecture">>, 1, <<None, None>>,
                <<"lecture", rt>>)
         EXCEPT !.days = {0}, !.slots = 1..GapSlots] : rt \in {"lecture", "lab"}}

\* one teacher, one classroom and one assignment of a course with ManySessions
\* sessions a week, on the whole grid
ManySessions == 15

ManySessionsSnapshots ==
    {Snapshot([a \in {1} |-> [department |-> "Computer Science", course_id |-> 1,
                              teacher_id |-> 1, group_id |-> None]],
              [t \in {1} |-> [department |-> "Computer Science",
                              availability |-> availability, days_off |-> {},
                              max_hours_per_day |-> 8]],
              [c \in {1} |-> [department |-> "Computer Science", duration_minutes |-> 55,
                              sessions_per_week |-> ManySessions, room_type |-> "lecture"]],
              [r \in {1} |-> [department |-> "Computer Science", room_type |-> "lecture",
                              capacity |-> 30]],
              0..(num_days - 1), 0..(num_slots_per_day - 1)) :
        availability \in {Nothing, FullWeek}}

Snapshots ==
    RoomSnapshots \cup TeacherSnapshots \cup GroupSnapshots \cup GapSnapshots
        \cup ManySessionsSnapshots

\* a draft timetable of the department and one call of generate_timetable
InitSolve ==
    /\ scheduled_slots = {}
    /\ dept_timetables = [t \in {1} |-> DeptTimetable("Computer Science", "draft", 1)]
    /\ next_slot_id = 1
    /\ global_slots = EmptyDict
    /\ department_timetables = EmptyDict
    /\ shared_resources = EmptyDict
    /\ clock = 2
    /\ \E data \in Snapshots :
          runs = <<Frame(1, "Computer Science", "direct", "start", data)>>
    /\ ret = Ret("init", None, NoTimetable, TRUE, {}, {}, 0)

NextSolve == Generate

SpecSolve == InitSolve /\ [][NextSolve]_vars

----------------------------------------------------------------------------
(* The claims *)

\* the departments of the list whose latest completed timetable has a row at the cell
ClaimantsAt(slots, timetables, departments, k) ==
    {d \in departments :
        \E s \in slots : /\ s.dept_timetable_id = latest_completed(timetables, d)
                         /\ KeyOf(s) = k}

\* the cells claimed by more than one department of the list
ContestedCells(slots, timetables, departments) ==
    {k \in {KeyOf(s) : s \in slots} :
        Cardinality(ClaimantsAt(slots, timetables, departments, k)) > 1}

\* C1: after any sequence of reserve and release calls that commit, from a
\* loaded coordinator, validate_global_consistency returns ok and every stored
\* global slot has an entry of G for its cell that names the slot's department.
C1_ReserveReleaseKeepConsistency ==
    /\ validate_global_consistency(global_slots, scheduled_slots)[1]
    /\ \A s \in GlobalRows(scheduled_slots) :
          /\ KeyOf(s) \in DOMAIN global_slots
          /\ global_slots[KeyOf(s)] = s.department

C5_NoDoubleReservation ==
    \A s1, s2 \in GlobalRows(scheduled_slots) : KeyOf(s1) = KeyOf(s2) => s1 = s2

\* C6: a load_global_state that follows a load_global_state, with no write to
\* the store between them, changes nothing of the coordinator.
C6_LoadIsIdempotent ==
    [][ret.op = "load" /\ ret'.op = "load" =>
          /\ global_slots' = global_slots
          /\ department_timetables' = department_timetables
          /\ shared_resources' = shared_resources]_vars

\* C7: check_resource_conflicts(D, T) changes neither G nor the store; it
\* records a conflict for a slot of T exactly when G maps the slot's cell to a
\* department other than D, records nothing else, and returns ok exactly when
\* it recorded no conflict.
C7_CheckReportsForeignCells ==
    [][ret'.op = "check" =>
          /\ UNCHANGED <<scheduled_slots, dept_timetables, global_slots,
                         department_timetables, shared_resources>>
          /\ \A s \in {x \in scheduled_slots : x.dept_timetable_id = ret'.timetable_id} :
                (\E c \in ret'.conflicts : c.slot_id = s.id)
                    <=> /\ KeyOf(s) \in DOMAIN global_slots
                        /\ global_slots[KeyOf(s)] # ret'.department
          /\ \A c \in ret'.conflicts :
                \E s \in scheduled_slots : /\ s.dept_timetable_id = ret'.timetable_id
                                           /\ s.id = c.slot_id
                                           /\ c.occupying_department = global_slots[KeyOf(s)]
          /\ ret'.success <=> ret'.conflicts = {}]_vars

\* C7 witness: a check has found a slot on a cell another department holds
C7_CheckFoundConflict ==
    /\ ret.op = "check"
    /\ ~ ret.success
    /\ \E s \in scheduled_slots :
          /\ s.dept_timetable_id = ret.timetable_id
          /\ KeyOf(s) \in DOMAIN global_slots
          /\ global_slots[KeyOf(s)] # ret.department

\* C8: a step 7 response that reports success, and a detect response, carry
\* every conflict check_resource_conflicts finds for the timetables they
\* checked: they carry no conflicts only when the check found none.
C8_FoundConflictsAreReported ==
    [][ret' # ret /\ ret'.op \in {"step7", "detect"} /\ ret'.success =>
          LET found ==
                  IF ret'.op = "step7"
                  THEN check_resource_conflicts(global_slots, scheduled_slots,
                                                ret'.department, ret'.timetable_id)[2]
                  ELSE UNION {check_resource_conflicts(
                                  global_slots, scheduled_slots, d,
                                  latest_completed(dept_timetables, d))[2]
                              : d \in ret'.departments}
          IN found \subseteq ret'.conflicts]_vars

\* C9: no two calls of generate_timetable for one timetable are past their
\* first step at once: the second is refused before it reaches the solver.
C9_OneGenerationPerTimetable ==
    \A r1, r2 \in DOMAIN runs :
        /\ r1 # r2
        /\ runs[r1].timetable_id = runs[r2].timetable_id
        /\ runs[r1].pc \in {"solve", "save", "failed"}
        => runs[r2].pc \notin {"solve", "save", "failed"}

\* C10: a timetable is created as draft and its status changes only from draft
\* to generating, from generating to completed or failed, and from completed
\* or failed to generating.
C10_StatusLifecycle ==
    [][\A t \in DOMAIN dept_timetables' :
          IF t \in DOMAIN dept_timetables
          THEN \/ dept_timetables'[t].status = dept_timetables[t].status
               \/ <<dept_timetables[t].status, dept_timetables'[t].status>> \in
                     {<<"draft", "generating">>, <<"generating", "completed">>,
                      <<"generating", "failed">>, <<"completed", "generating">>,
                      <<"failed", "generating">>}
          ELSE dept_timetables'[t].status = "draft"]_vars

\* the slots the store holds for a timetable
SlotsOf(slots, timetable_id) == {s \in slots : s.dept_timetable_id = timetable_id}

\* C11: a call whose solver reported INFEASIBLE or UNKNOWN ends with the
\* timetable failed, a generation_log that holds the solver's status name, a
\* failure returned with the solver's stats, and the timetable's slots as they were.
C11_NoSolutionIsLoggedAndReturned ==
    [][\A r \in DOMAIN runs :
          /\ runs[r].status \in {"INFEASIBLE", "UNKNOWN"}
          /\ runs[r].pc # "done"
          /\ runs'[r].pc = "done"
          => LET timetable_id == runs[r].timetable_id
             IN /\ dept_timetables'[timetable_id].status = "failed"
                /\ dept_timetables'[timetable_id].generation_log
                       = SolverFailedLog(runs[r].status)
                /\ ~ runs'[r].success
                /\ runs'[r].stats = "solver_stats"
                /\ SlotsOf(scheduled_slots', timetable_id)
                       = SlotsOf(scheduled_slots, timetable_id)]_vars

\* C12: a save either commits everything (the timetable's old slots are gone,
\* its slots are exactly the new rows, status completed, solver_stats and
\* updated_at written, success returned) or leaves the store as it was (old
\* slots intact, no new slot, status as before) and returns failure.
C12_SaveIsAtomic ==
    [][\A r \in DOMAIN runs :
          runs[r].pc = "save" /\ runs'[r].pc = "done" =>
             LET timetable_id == runs[r].timetable_id
                 rows == extract_solution(runs[r].data, runs[r].chosen)
                 stored == SlotsOf(scheduled_slots', timetable_id)
             IN \/ /\ runs'[r].success
                   /\ stored \cap scheduled_slots = {}
                   /\ Cardinality(stored) = Cardinality(rows)
                   /\ {[assignment_id |-> s.assignment_id, classroom_id |-> s.classroom_id,
                        day_of_week |-> s.day_of_week, start_time |-> s.start_time,
                        end_time |-> s.end_time] : s \in stored} = rows
                   /\ scheduled_slots' \ stored
                         = scheduled_slots \ SlotsOf(scheduled_slots, timetable_id)
                   /\ dept_timetables' =
                         [dept_timetables EXCEPT ![timetable_id].status = "completed",
                                                 ![timetable_id].solver_stats = "solver_stats",
                                                 ![timetable_id].updated_at = clock]
                \/ /\ ~ runs'[r].success
                   /\ scheduled_slots' = scheduled_slots
                   /\ dept_timetables' = dept_timetables
                   /\ next_slot_id' = next_slot_id]_vars

\* a save rolled back over a timetable that kept its old slots and its status
\* generating, next to a call whose save committed
C12_SaveRolledBack ==
    \E r1, r2 \in DOMAIN runs :
        /\ runs[r1].pc \in {"done", "returned"} /\ runs[r1].success
        /\ runs[r2].pc = "done" /\ runs[r2].status = "OPTIMAL" /\ ~ runs[r2].success
        /\ dept_timetables[runs[r2].timetable_id].status = "generating"
        /\ SlotsOf(scheduled_slots, runs[r2].timetable_id) # {}

\* a call that returned success
Succeeded(r) == runs[r].pc \in {"done", "returned"} /\ runs[r].success

\* the assignments of the data whose course no classroom of the data can take
WithoutClassroom(data) ==
    {a \in DOMAIN data.assignments :
        \A c \in DOMAIN data.classrooms :
            ~ is_room_compatible(CourseOf(data, a).room_type, data.classrooms[c].room_type)}

\* C13: in a timetable generated successfully every assignment of the
\* department has exactly sessions_per_week slots, also an assignment whose
\* course has no compatible classroom.
C13_EveryAssignmentFullyScheduled ==
    \A r \in DOMAIN runs :
        Succeeded(r) =>
            \A a \in DOMAIN runs[r].data.assignments :
                Cardinality({s \in SlotsOf(scheduled_slots, runs[r].timetable_id) :
                                s.assignment_id = a})
                    = CourseOf(runs[r].data, a).sessions_per_week

\* C14: when a course of some assignment has no compatible classroom in the
\* department, the call ends in failure and no slot is written.
C14_NoCompatibleClassroomFails ==
    \A r \in DOMAIN runs :
        runs[r].pc = "done" /\ WithoutClassroom(runs[r].data) # {} =>
            /\ ~ runs[r].success
            /\ SlotsOf(scheduled_slots, runs[r].timetable_id) = {}

\* C15: no two slots of a generated timetable share (classroom, day_of_week,
\* start_time).
C15_OneSlotPerClassroomCell ==
    \A s1, s2 \in scheduled_slots :
        /\ s1.dept_timetable_id = s2.dept_timetable_id
        /\ s1.classroom_id = s2.classroom_id
        /\ s1.day_of_week = s2.day_of_week
        /\ s1.start_time = s2.start_time
        => s1 = s2

\* a generated timetable with two slots in one classroom and two in one cell
C15_ClassroomUsedTwice ==
    \E r \in DOMAIN runs :
        /\ Succeeded(r)
        /\ \E s1, s2, s3 \in SlotsOf(scheduled_slots, runs[r].timetable_id) :
              /\ s1 # s2 /\ s1.classroom_id = s2.classroom_id
              /\ s1 # s3 /\ s1.day_of_week = s3.day_of_week /\ s1.start_time = s3.start_time

\* the teacher of a stored slot, in the data of the call that wrote it
TeacherOf(data, s) == data.assignments[s.assignment_id].teacher_id

\* C16: in a timetable generated successfully, for every teacher and every
\* (day, start_time) at most one slot belongs to an assignment of the teacher,
\* whatever the classrooms.
C16_OneSlotPerTeacherCell ==
    \A r \in DOMAIN runs :
        Succeeded(r) =>
            \A s1, s2 \in SlotsOf(scheduled_slots, runs[r].timetable_id) :
                /\ TeacherOf(runs[r].data, s1) = TeacherOf(runs[r].data, s2)
                /\ s1.day_of_week = s2.day_of_week
                /\ s1.start_time = s2.start_time
                => s1 = s2

\* a generated timetable where one teacher has two slots, in two classrooms
C16_TeacherTeachesTwice ==
    \E r \in DOMAIN runs :
        /\ Succeeded(r)
        /\ \E s1, s2 \in SlotsOf(scheduled_slots, runs[r].timetable_id) :
              /\ s1.assignment_id # s2.assignment_id
              /\ TeacherOf(runs[r].data, s1) = TeacherOf(runs[r].data, s2)
              /\ s1.classroom_id # s2.classroom_id
              /\ s1.day_of_week = s2.day_of_week

\* the table of compatible (course room_type, classroom room_type) pairs
CompatibilityTable ==
    {<<"lecture", "lecture">>, <<"lecture", "conference">>, <<"lab", "lab">>,
     <<"lab", "computer_lab">>, <<"computer_lab", "computer_lab">>,
     <<"conference", "conference">>}

\* C17: the compatibility predicate accepts exactly the six pairs of the
\* table and rejects the ten others, and every generated slot puts a course
\* in a classroom whose pair the table holds.
C17_CompatibilityIsTheTable ==
    /\ \A c \in RoomTypes, r \in RoomTypes :
          is_room_compatible(c, r) <=> <<c, r>> \in CompatibilityTable
    /\ Cardinality(CompatibilityTable) = 6
    /\ \A r \in DOMAIN runs :
          \A s \in SlotsOf(scheduled_slots, runs[r].timetable_id) :
              <<CourseOf(runs[r].data, s.assignment_id).room_type,
                runs[r].data.classrooms[s.classroom_id].room_type>> \in CompatibilityTable

\* a generated slot of a lecture course in a conference room
C17_LectureInConferenceRoom ==
    \E r \in DOMAIN runs :
        /\ Succeeded(r)
        /\ \E s \in SlotsOf(scheduled_slots, runs[r].timetable_id) :
              /\ CourseOf(runs[r].data, s.assignment_id).room_type = "lecture"
              /\ runs[r].data.classrooms[s.classroom_id].room_type = "conference"

\* C18: in a timetable generated successfully no slot of a teacher falls on
\* one of the teacher's days_off, with or without an availability matrix, and
\* none on a cell the matrix marks false.
C18_DaysOffAndAvailabilityRespected ==
    \A r \in DOMAIN runs :
        Succeeded(r) =>
            \A s \in SlotsOf(scheduled_slots, runs[r].timetable_id) :
                LET teacher == runs[r].data.teachers[TeacherOf(runs[r].data, s)]
                IN /\ s.day_of_week \notin teacher.days_off
                   /\ teacher.availability # Nothing =>
                         ~ (/\ s.day_of_week < Len(teacher.availability)
                            /\ time_to_slot(s.start_time)
                                  < Len(teacher.availability[s.day_of_week + 1])
                            /\ ~ teacher.availability[s.day_of_week + 1]
                                                     [time_to_slot(s.start_time) + 1])

\* for every cell, the members of a group occupy it equally often
GroupOccupancyEqual(data, chosen) ==
    \A a1, a2 \in DOMAIN data.assignments :
        /\ data.assignments[a1].group_id # None
        /\ data.assignments[a1].group_id = data.assignments[a2].group_id
        => \A day \in data.days, slot \in data.slots :
              Cardinality({k \in chosen : k[1] = a1 /\ k[3] = day /\ k[4] = slot})
                  = Cardinality({k \in chosen : k[1] = a2 /\ k[3] = day /\ k[4] = slot})

\* C19: the group constraint of the model a call has built accepts a placement
\* exactly when the members of each group occupy every cell equally often,
\* whatever classrooms they use.
C19_GroupConstraintIsOccupancyEquality ==
    \A r \in DOMAIN runs :
        runs[r].pc # "start" =>
            \A chosen \in Candidates(runs[r].data) :
                group_constraint(runs[r].data, chosen)
                    <=> GroupOccupancyEqual(runs[r].data, chosen)

C21_FailedMutationRestoresG ==
    [][ret'.op \in {"reserve", "release"} /\ ~ ret'.success =>
          /\ scheduled_slots' = scheduled_slots
          /\ global_slots' = global_slots]_vars

\* the categories of which the department holds no row, by the error that names them
EmptyCategoryErrors(department) ==
    LET empty(table) == \A x \in DOMAIN table : table[x].department # department
    IN (IF empty(Assignment) THEN {"No assignments found for scheduling"} ELSE {})
       \cup (IF empty(Teacher) THEN {"No teachers found for scheduling"} ELSE {})
       \cup (IF empty(Classroom) THEN {"No classrooms found for scheduling"} ELSE {})
       \cup (IF empty(Course) THEN {"No courses found for scheduling"} ELSE {})

\* C22: step 7 for a department that has no assignment, no teacher, no
\* classroom or no course answers failure with one error for every empty
\* category, creates no timetable and starts no call of generate_timetable.
C22_Step7RefusesEmptyData ==
    [][\A department \in Step7Departments :
          EmptyCategoryErrors(department) # {} =>
             /\ \A t \in DOMAIN dept_timetables' \ DOMAIN dept_timetables :
                   dept_timetables'[t].department # department
             /\ \A r \in DOMAIN runs' \ DOMAIN runs :
                   runs'[r].department # department
             /\ ret' # ret /\ ret'.op = "step7" /\ ret'.department = department =>
                   /\ ~ ret'.success
                   /\ Range(ret'.errors) = EmptyCategoryErrors(department)
                   /\ Len(ret'.errors) = Cardinality(EmptyCategoryErrors(department))
                   /\ UNCHANGED <<storage, runs>>]_vars

\* step 7 refused for a department that has nothing, while a timetable of
\* another department was created
C22_Step7Refused ==
    /\ ret.op = "step7"
    /\ ~ ret.success
    /\ Len(ret.errors) = 4
    /\ Cardinality(DOMAIN dept_timetables) > 1

\* the (teacher, day, s) where the teacher is busy at s and s + 2 and idle at s + 1
TeacherGaps(data, chosen) ==
    LET busy(t, day, slot) ==
            \E k \in chosen :
                data.assignments[k[1]].teacher_id = t /\ k[3] = day /\ k[4] = slot
    IN {g \in (DOMAIN data.teachers) \X data.days \X data.slots :
           busy(g[1], g[2], g[3]) /\ busy(g[1], g[2], g[3] + 2) /\ ~ busy(g[1], g[2], g[3] + 1)}

\* the placements on the first and the last slot of the day
EarlyOrLate(chosen) == {k \in chosen : k[4] \in {0, num_slots_per_day - 1}}

\* C24: of two complete placements of the model a call has built that have the
\* same other penalty terms, the one with more teacher gaps has the higher
\* objective value, by 10 for each gap.
C24_ObjectiveGrowsWithGaps ==
    \A r \in DOMAIN runs :
        runs[r].pc # "start" =>
            \A p1, p2 \in Solutions(runs[r].data) :
                /\ Cardinality(TeacherGaps(runs[r].data, p1))
                      > Cardinality(TeacherGaps(runs[r].data, p2))
                /\ Cardinality(EarlyOrLate(p1)) = Cardinality(EarlyOrLate(p2))
                => ObjectiveValue(runs[r].data, p1)
                      = ObjectiveValue(runs[r].data, p2)
                          + gap_penalty * (Cardinality(TeacherGaps(runs[r].data, p1))
                                           - Cardinality(TeacherGaps(runs[r].data, p2)))

C29_LoadDropsStaleEntries ==
    [][ret'.op = "load" => DOMAIN global_slots' = GlobalKeys(scheduled_slots')]_vars

\* the rows a synchronize step has inserted
Rescheduled == {n \in scheduled_slots' : n.id >= next_slot_id}

FreeCells(slot, G) ==
    LET teacher == Teacher[Assignment[slot.assignment_id].teacher_id]
    IN {c \in (0..(num_days - 1)) \X (0..(num_slots_per_day - 1)) :
           /\ c[1] \notin teacher.days_off
           /\ teacher.availability = Nothing \/ AvailableAt(teacher.availability, c[1], c[2])
           /\ <<slot.classroom_id, c[1], c[2]>> \notin DOMAIN G}

NameOrder == <<"Art", "Bio", "Computer Science">>

ByName(depts) == SelectSeq(NameOrder, LAMBDA d : d \in depts)

\* what a synchronize of the listed departments commits from the current state
SyncOutcomes(departments) ==
    LET dslots == department_slots(scheduled_slots, dept_timetables, departments)
        order == department_order(dept_timetables, departments)
        conflicts == detect_inter_department_conflicts(dslots, order)
    IN {sync_commit(scheduled_slots, next_slot_id,
                    resolve_conflicts_by_priority(conflicts, global_slots, firsts)) :
            firsts \in FirstRows(conflicts)}

CommittedG ==
    IF runs # <<>> /\ runs[1].pc \in {"commit", "failed"} THEN runs[1].before
    ELSE global_slots

\* C26: a check that runs while a reserve or release has not committed, or after
\* it was rolled back, reports what it would report on the G of the committed
\* calls: it sees no uncommitted write to G.
C26_ReadersSeeCommittedG ==
    [][ret'.op = "check" =>
          ret'.conflicts = check_resource_conflicts(CommittedG, scheduled_slots,
                                                    ret'.department, ret'.timetable_id)[2]]_vars

\* C28: a release_global_slots(D, T) that commits clears is_global_slot on the
\* global slots of T and on no other row, removes from G the cells of those
\* slots whose entry maps to D, and leaves every other entry of G as it was.
C28_ReleaseClearsOwnEntriesOnly ==
    [][InFlight /\ runs[1].caller = "release" /\ runs'[1].pc = "done" =>
          LET tx == runs[1]
              released == {s \in scheduled_slots :
                              s.dept_timetable_id = tx.timetable_id /\ s.is_global_slot}
              removed == {k \in {KeyOf(s) : s \in released} :
                             k \in DOMAIN tx.before /\ tx.before[k] = tx.department}
          IN /\ scheduled_slots' =
                   (scheduled_slots \ released)
                       \cup {[s EXCEPT !.is_global_slot = FALSE] : s \in released}
             /\ DOMAIN global_slots' = (DOMAIN tx.before) \ removed
             /\ \A k \in DOMAIN global_slots' : global_slots'[k] = tx.before[k]]_vars

\* a committed release that removed an entry of its department and kept, on the
\* cell of another released slot or of the same one, an entry of another department
C28_ReleaseKeptForeignEntry ==
    /\ runs # <<>>
    /\ runs[1].caller = "release"
    /\ runs[1].pc = "done"
    /\ \E s \in runs[1].rows :
          /\ KeyOf(s) \in DOMAIN global_slots
          /\ global_slots[KeyOf(s)] # runs[1].department
    /\ \E s \in scheduled_slots :
          /\ s.dept_timetable_id # runs[1].timetable_id
          /\ s.is_global_slot

====
